---- MODULE Spec2Model ----
(***************************************************************************)
(* Model of the subdecks2tags add-on (src/subdecks2tags/__init__.py):      *)
(* the flattening operation reassign_subdeck_cards_to_head and the tagging *)
(* pair collect_note_tag_updates / apply_tags_to_notes, run against a deck *)
(* store (deck names, card -> home deck, note -> tag list).                *)
(*                                                                         *)
(* Deck names and tags are sequences of one-character strings, so that     *)
(* str.startswith, str.split("::"), "::".join and str.replace are modelled *)
(* by what they do on characters.                                          *)
(***************************************************************************)
EXTENDS Integers, Sequences, FiniteSets, TLC

VARIABLES decks, did, noteTags,
          pc, deck_name, preserve_levels, cids_to_new_did, pending,
          empty_subdeck_ids, found_empty, attempted, failed, removed_names,
          outcome, decks0, did0,
          tpc, tag_root, updates, hist

vars == <<decks, did, noteTags,
          pc, deck_name, preserve_levels, cids_to_new_did, pending,
          empty_subdeck_ids, found_empty, attempted, failed, removed_names,
          outcome, decks0, did0,
          tpc, tag_root, updates, hist>>

flattenVars == <<pc, deck_name, preserve_levels, cids_to_new_did, pending,
                 empty_subdeck_ids, found_empty, attempted, failed,
                 removed_names, outcome, decks0, did0>>

tagVars == <<tpc, tag_root, updates, hist>>

----------------------------------------------------------------------------
(* Bounds of the model *)

\* number of cards in the collection
NumCards == 2

\* largest preserve_levels tried (the dialog's spin box allows 0..5)
MaxLevels == 2

\* depth of the deepest deck of the chain A, A::B, A::B::C, ...
MaxDepth == 3

\* how many times the same updates are applied by apply_tags_to_notes
MaxApply == 2

----------------------------------------------------------------------------
(* The universe of deck names *)

Letters == <<"A", "B", "C", "D", "E", "F", "G">>

Sep == <<":", ":">>

\* the segment lists of the decks that may exist: the chain A, A::B, ...,
\* then "AB", "AB::C" (names that start with "A" but are outside deck "A")
\* and "A::C D" (a name with a space)
UniverseSegs ==
    [k \in 1..(MaxDepth + 1) |-> [i \in 1..k |-> <<Letters[i]>>]]
    \o << <<(<<"A", "B">>)>>,
          <<(<<"A", "B">>), (<<"C">>)>>,
          <<(<<"A">>), (<<"C", " ", "D">>)>> >>

RECURSIVE PathName(_)
PathName(segs) ==
    IF Len(segs) = 0 THEN <<>>
    ELSE IF Len(segs) = 1 THEN segs[1]
    ELSE segs[1] \o Sep \o PathName(Tail(segs))

DeckUniverse == [i \in 1..Len(UniverseSegs) |-> PathName(UniverseSegs[i])]

DeckNames == {DeckUniverse[i] : i \in 1..Len(DeckUniverse)}

Cards == 1..NumCards

\* cards 1 and 2 belong to note 1, cards 3 and 4 to note 2, ...
NoteOf(c) == (c + 1) \div 2

Notes == {NoteOf(c) : c \in Cards}

\* home deck of a card that the store has deleted
Gone == <<"?">>

Range(s) == {s[i] : i \in 1..Len(s)}

----------------------------------------------------------------------------
(* String operations of the source *)

\* str.startswith
StartsWith(s, p) == Len(p) <= Len(s) /\ SubSeq(s, 1, Len(p)) = p

\* str.split("::"), scanning left to right
RECURSIVE SplitFrom(_, _, _)
SplitFrom(s, i, cur) ==
    IF i > Len(s) THEN <<cur>>
    ELSE IF i < Len(s) /\ s[i] = ":" /\ s[i + 1] = ":"
         THEN <<cur>> \o SplitFrom(s, i + 2, <<>>)
         ELSE SplitFrom(s, i + 1, Append(cur, s[i]))

Split(s) == SplitFrom(s, 1, <<>>)

\* "::".join(parts)
RECURSIVE Join(_)
Join(parts) ==
    IF Len(parts) = 0 THEN <<>>
    ELSE IF Len(parts) = 1 THEN parts[1]
    ELSE parts[1] \o Sep \o Join(Tail(parts))

\* parts[:n]
Slice(parts, n) == SubSeq(parts, 1, IF n < Len(parts) THEN n ELSE Len(parts))

\* str.replace(" ", "_")
ToTag(name) == [i \in 1..Len(name) |-> IF name[i] = " " THEN "_" ELSE name[i]]

----------------------------------------------------------------------------
(* The deck store (col.decks, col.db) *)

\* col.decks.all(): the decks of the store in the store's enumeration order
AllDecks(ds) == SelectSeq(DeckUniverse, LAMBDA d : d \in ds)

\* col.decks.id(name): resolve the deck, creating it and its missing parents
DecksId(ds, name) ==
    ds \cup {Join(Slice(Split(name), k)) : k \in 1..Len(Split(name))}

\* SELECT id FROM cards WHERE did = ?
CardsIn(cd, d) == {c \in Cards : cd[c] = d}

\* SELECT COUNT(1) FROM cards WHERE did = ?
CardCount(cd, d) == Cardinality(CardsIn(cd, d))

\* col.decks.remove([id]): the deck and its child decks go, with their cards
RemovedBy(ds, d) == {x \in ds : x = d \/ StartsWith(x, d \o Sep)}

PrefixClosed(ds) == \A d \in ds : DecksId({}, d) \subseteq ds

Stores == {ds \in SUBSET DeckNames : ds # {} /\ PrefixClosed(ds)}

----------------------------------------------------------------------------
(* reassign_subdeck_cards_to_head: helpers of op *)

IsSubdeckNoSep(name, root) == StartsWith(name, root)

\* d["name"].startswith(deck_name + "::")
IsSubdeck(name, root) == StartsWith(name, root \o Sep)

\* parts = subdeck_name.split("::"); subdeck_depth = len(parts) - 1
SubdeckDepth(name) == Len(Split(name)) - 1

NewDeckNameOneMore(name, levels) == Join(Slice(Split(name), levels + 2))

\* preserved_parts = parts[:preserve_levels + 1]; "::".join(preserved_parts)
NewDeckName(name, levels) == Join(Slice(Split(name), levels + 1))

TooDeepOffByOne(ds, root, levels) ==
    {d \in ds : IsSubdeck(d, root) /\ ~(SubdeckDepth(d) <= levels + 1)}

\* the decks of decks_to_process that take the else branch of the loop
TooDeep(ds, root, levels) ==
    {d \in ds : IsSubdeck(d, root) /\ ~(SubdeckDepth(d) <= levels)}

ApplyGroupFirstOnly(cd, cards, new_did) ==
    [c \in Cards |-> IF c \in cards /\ (\A x \in cards : c <= x)
                     THEN new_did ELSE cd[c]]

\* UPDATE cards SET did = ? WHERE id IN (cards)
ApplyGroup(cd, cards, new_did) ==
    [c \in Cards |-> IF c \in cards THEN new_did ELSE cd[c]]

\* new_did_to_cards[new_did]
GroupOf(m, new_did) == {c \in DOMAIN m : m[c] = new_did}

IsRemovalCandidateAnyDepth(d, root, levels) == IsSubdeck(d, root)

\* the two conditions of the re-scan that make a deck a removal candidate
IsRemovalCandidate(d, root, levels) ==
    IsSubdeck(d, root) /\ SubdeckDepth(d) > levels

\* empty_subdeck_ids as built by the re-scan over col.decks.all()
EmptySubdecks(ds, cd, root, levels) ==
    SelectSeq(AllDecks(ds),
              LAMBDA d : IsRemovalCandidate(d, root, levels)
                         /\ CardCount(cd, d) = 0)

NoMap == [c \in {} |-> Gone]

----------------------------------------------------------------------------
(* reassign_subdeck_cards_to_head: the steps of op and its callbacks *)

\* op up to the grouping of the cards: resolve the head deck, list the
\* subdecks, return early when there are none, else map every card of a too
\* deep subdeck to its new deck (resolved or created) and group by new deck
Start(r, l) ==
    /\ pc = "idle"
    /\ tpc = "idle"
    /\ deck_name' = r
    /\ preserve_levels' = l
    /\ decks0' = decks
    /\ did0' = did
    /\ LET all_decks == DecksId(decks, r)
           subdeck_ids == {d \in all_decks : IsSubdeck(d, r)}
           deep == TooDeep(all_decks, r, l)
           m == [c \in {x \in Cards : did[x] \in deep} |->
                    NewDeckName(did[c], l)]
       IN IF subdeck_ids = {}
          THEN /\ decks' = all_decks
               /\ cids_to_new_did' = NoMap
               /\ pending' = {}
               /\ pc' = "done"
               /\ outcome' = "success"
          ELSE /\ decks' = UNION ({all_decks} \cup
                                  {DecksId({}, NewDeckName(d, l)) : d \in deep})
               /\ cids_to_new_did' = m
               /\ pending' = {m[c] : c \in DOMAIN m}
               /\ pc' = "reassign"
               /\ outcome' = "running"
    /\ UNCHANGED <<did, noteTags, empty_subdeck_ids, found_empty, attempted,
                   failed, removed_names, tpc, tag_root, updates, hist>>

\* one iteration of the loop over new_did_to_cards: the batched UPDATE
ReassignGroup ==
    /\ pc = "reassign"
    /\ \E new_did \in pending :
          /\ did' = ApplyGroup(did, GroupOf(cids_to_new_did, new_did), new_did)
          /\ pending' = pending \ {new_did}
    /\ UNCHANGED <<decks, noteTags, pc, deck_name, preserve_levels,
                   cids_to_new_did, empty_subdeck_ids, found_empty, attempted,
                   failed, removed_names, outcome, decks0, did0,
                   tpc, tag_root, updates, hist>>

\* col.db.execute raises: the except clause re-raises and op fails; the host
\* either leaves what was written or rolls the collection back
ReassignFails ==
    /\ pc = "reassign"
    /\ pending # {}
    /\ pc' = "done"
    /\ outcome' = "failure"
    /\ \/ UNCHANGED <<decks, did>>
       \/ decks' = decks0 /\ did' = did0
    /\ UNCHANGED <<noteTags, deck_name, preserve_levels, cids_to_new_did,
                   pending, empty_subdeck_ids, found_empty, attempted, failed,
                   removed_names, decks0, did0, tpc, tag_root, updates, hist>>

\* the re-scan: updated_decks = col.decks.all(), collect the empty subdecks
\* deeper than preserve_levels
Rescan ==
    /\ pc = "reassign"
    /\ pending = {}
    /\ empty_subdeck_ids' = EmptySubdecks(decks, did, deck_name, preserve_levels)
    /\ found_empty' = empty_subdeck_ids'
    /\ pc' = "remove"
    /\ UNCHANGED <<decks, did, noteTags, deck_name, preserve_levels,
                   cids_to_new_did, pending, attempted, failed, removed_names,
                   outcome, decks0, did0, tpc, tag_root, updates, hist>>

\* one iteration of the removal loop in which col.decks.remove returns
RemoveOk ==
    /\ pc = "remove"
    /\ empty_subdeck_ids # <<>>
    /\ LET d == Head(empty_subdeck_ids)
           gone == RemovedBy(decks, d)
       IN /\ decks' = decks \ gone
          /\ did' = [c \in Cards |-> IF did[c] \in gone THEN Gone ELSE did[c]]
          /\ removed_names' = Append(removed_names, d)
          /\ attempted' = Append(attempted, d)
    /\ empty_subdeck_ids' = Tail(empty_subdeck_ids)
    /\ UNCHANGED <<noteTags, pc, deck_name, preserve_levels, cids_to_new_did,
                   pending, found_empty, failed, outcome, decks0, did0,
                   tpc, tag_root, updates, hist>>

RemoveFailsAbort ==
    /\ pc = "remove"
    /\ empty_subdeck_ids # <<>>
    /\ attempted' = Append(attempted, Head(empty_subdeck_ids))
    /\ failed' = failed \cup {Head(empty_subdeck_ids)}
    /\ pc' = "done"
    /\ outcome' = "failure"
    /\ UNCHANGED <<decks, did, noteTags, deck_name, preserve_levels,
                   cids_to_new_did, pending, empty_subdeck_ids, found_empty,
                   removed_names, decks0, did0, tpc, tag_root, updates, hist>>

\* one iteration of the removal loop in which col.decks.remove raises: the
\* except clause prints the error and the loop goes on
RemoveFails ==
    /\ pc = "remove"
    /\ empty_subdeck_ids # <<>>
    /\ attempted' = Append(attempted, Head(empty_subdeck_ids))
    /\ failed' = failed \cup {Head(empty_subdeck_ids)}
    /\ empty_subdeck_ids' = Tail(empty_subdeck_ids)
    /\ UNCHANGED <<decks, did, noteTags, pc, deck_name, preserve_levels,
                   cids_to_new_did, pending, found_empty, removed_names,
                   outcome, decks0, did0, tpc, tag_root, updates, hist>>

\* the end of op after the removal loop: return OpChanges()
Finish ==
    /\ pc = "remove"
    /\ empty_subdeck_ids = <<>>
    /\ pc' = "done"
    /\ outcome' = "success"
    /\ UNCHANGED <<decks, did, noteTags, deck_name, preserve_levels,
                   cids_to_new_did, pending, empty_subdeck_ids, found_empty,
                   attempted, failed, removed_names, decks0, did0,
                   tpc, tag_root, updates, hist>>

\* the state of the operation once its callback has shown its message
Settled ==
    /\ pc' = "idle"
    /\ deck_name' = <<>>
    /\ preserve_levels' = 0
    /\ cids_to_new_did' = NoMap
    /\ pending' = {}
    /\ empty_subdeck_ids' = <<>>
    /\ found_empty' = <<>>
    /\ attempted' = <<>>
    /\ failed' = {}
    /\ removed_names' = <<>>
    /\ outcome' = "none"
    /\ decks0' = decks
    /\ did0' = did
    /\ UNCHANGED <<decks, did, noteTags, tpc, tag_root, updates, hist>>

on_success ==
    /\ pc = "done"
    /\ outcome = "success"
    /\ Settled

on_failure ==
    /\ pc = "done"
    /\ outcome = "failure"
    /\ Settled

----------------------------------------------------------------------------
(* The flattening specification *)

StoreInit ==
    /\ decks \in Stores
    /\ did \in [Cards -> decks]

FlattenIdle ==
    /\ pc = "idle"
    /\ deck_name = <<>>
    /\ preserve_levels = 0
    /\ cids_to_new_did = NoMap
    /\ pending = {}
    /\ empty_subdeck_ids = <<>>
    /\ found_empty = <<>>
    /\ attempted = <<>>
    /\ failed = {}
    /\ removed_names = <<>>
    /\ outcome = "none"
    /\ decks0 = decks
    /\ did0 = did

TagIdle ==
    /\ tpc = "idle"
    /\ tag_root = <<>>
    /\ updates = {}
    /\ hist = <<>>

Init ==
    /\ StoreInit
    /\ noteTags = [n \in Notes |-> <<>>]
    /\ FlattenIdle
    /\ TagIdle

Next ==
    \/ \E r \in DeckNames, l \in 0..MaxLevels : Start(r, l)
    \/ ReassignGroup
    \/ ReassignFails
    \/ Rescan
    \/ RemoveOk
    \/ RemoveFails
    \/ Finish
    \/ on_success
    \/ on_failure

Spec == Init /\ [][Next]_vars

----------------------------------------------------------------------------
(* collect_note_tag_updates and apply_tags_to_notes *)

\* the deck filter of collect_note_tag_updates:
\* d["name"].startswith(deck_name)
TagDids(ds, root) == {d \in ds : StartsWith(d, root)}

\* the tag_set built for one note from the decks of its cards
TagSetOf(ds, cd, dids, nid) ==
    {ToTag(cd[c]) : c \in {x \in Cards : NoteOf(x) = nid /\ cd[x] \in dids
                                         /\ cd[x] \in ds}}

\* collect_note_tag_updates(deck_name): the returned list, as the set of its
\* entries (a note object with the tags it was loaded with, and its tag_set)
CollectUpdates(ds, cd, nt, root) ==
    LET dids == TagDids(ds, root)
        cids == {c \in Cards : cd[c] \in dids}
        nids == {NoteOf(c) : c \in cids}
    IN IF dids = {} \/ cids = {} THEN {}
       ELSE {[nid |-> n, tags |-> nt[n], tag_set |-> TagSetOf(ds, cd, dids, n)] :
                n \in {x \in nids : TagSetOf(ds, cd, dids, x) # {}}}

\* Note.add_tag: append the tag unless the note has it
AddTag(tags, tag) == IF tag \in Range(tags) THEN tags ELSE Append(tags, tag)

RECURSIVE AddAll(_, _)
AddAll(tags, tag_set) ==
    IF tag_set = {} THEN tags
    ELSE LET t == CHOOSE x \in tag_set : TRUE
         IN AddAll(AddTag(tags, t), tag_set \ {t})

TaggedNoteReplacing(tags, tag_set) == AddAll(<<>>, tag_set)

\* for tag in tag_set: note.add_tag(tag)
TaggedNote(tags, tag_set) == AddAll(tags, tag_set)

CollectNoteTagUpdates(r) ==
    /\ tpc = "idle"
    /\ pc = "idle"
    /\ tag_root' = r
    /\ updates' = CollectUpdates(decks, did, noteTags, r)
    /\ hist' = <<noteTags>>
    /\ tpc' = "collected"
    /\ UNCHANGED <<decks, did, noteTags>>
    /\ UNCHANGED flattenVars

\* show_subdeck_tool_dialog with an empty list: showInfo("No notes found")
NoNotesFound ==
    /\ tpc = "collected"
    /\ updates = {}
    /\ tpc' = "finished"
    /\ UNCHANGED <<decks, did, noteTags, tag_root, updates, hist>>
    /\ UNCHANGED flattenVars

\* op of apply_tags_to_notes: every note object gets its tags and is saved
ApplyTagsToNotes ==
    /\ tpc \in {"collected", "applied"}
    /\ updates # {}
    /\ Len(hist) <= MaxApply
    /\ updates' = {[u EXCEPT !.tags = TaggedNote(u.tags, u.tag_set)] :
                      u \in updates}
    /\ noteTags' = [n \in Notes |->
                      IF \E u \in updates : u.nid = n
                      THEN LET u == CHOOSE x \in updates : x.nid = n
                           IN TaggedNote(u.tags, u.tag_set)
                      ELSE noteTags[n]]
    /\ hist' = Append(hist, noteTags')
    /\ tpc' = "applied"
    /\ UNCHANGED <<decks, did, tag_root>>
    /\ UNCHANGED flattenVars

\* the success callback of apply_tags_to_notes
TagSuccess ==
    /\ tpc = "applied"
    /\ tpc' = "finished"
    /\ UNCHANGED <<decks, did, noteTags, tag_root, updates, hist>>
    /\ UNCHANGED flattenVars

\* tag lists a note may carry before tagging
InitTagLists == {<<>>, <<ToTag(DeckUniverse[2])>>, << <<"x">> >>}

InitTag ==
    /\ StoreInit
    /\ noteTags \in [Notes -> InitTagLists]
    /\ FlattenIdle
    /\ TagIdle

NextTag ==
    \/ \E r \in DeckNames : CollectNoteTagUpdates(r)
    \/ NoNotesFound
    \/ ApplyTagsToNotes
    \/ TagSuccess

SpecTag == InitTag /\ [][NextTag]_vars

----------------------------------------------------------------------------
(* Vocabulary of the properties: deck paths as segment lists, independent *)
(* of the string operations above                                          *)

SegsOf(name) ==
    UniverseSegs[CHOOSE i \in 1..Len(DeckUniverse) : DeckUniverse[i] = name]

DepthOf(name) == Len(SegsOf(name)) - 1

IsStrictDescendant(name, root) ==
    /\ name \in DeckNames
    /\ root \in DeckNames
    /\ Len(SegsOf(root)) < Len(SegsOf(name))
    /\ SubSeq(SegsOf(name), 1, Len(SegsOf(root))) = SegsOf(root)

InsideRoot(name, root) == name = root \/ IsStrictDescendant(name, root)

IsFlattenCandidate(name, root, levels) ==
    IsStrictDescendant(name, root) /\ DepthOf(name) > levels

TruncatedPath(name, n) == PathName(SubSeq(SegsOf(name), 1, n))

FlattenSucceeded == pc = "done" /\ outcome = "success"

NoDuplicates(s) == \A i, j \in 1..Len(s) : s[i] = s[j] => i = j

----------------------------------------------------------------------------
(* Properties of flatten *)

\* C1 as stated: after a successful flatten(root, levels) no descendant deck
\* of root deeper than levels holds a card, and every such deck has been
\* deleted.
C1_DeepDecksAllDeleted ==
    FlattenSucceeded =>
        \A d \in DeckNames :
            IsFlattenCandidate(d, deck_name, preserve_levels) =>
                CardCount(did, d) = 0 /\ d \notin decks

\* C1 as amended: after a successful flatten(root, levels) no descendant deck
\* of root deeper than levels holds a card, and every such deck has been
\* deleted unless its removal raised, in which case it is left with no cards.
C1_DeepDecksEmptyAndDeletedUnlessFailed ==
    FlattenSucceeded =>
        \A d \in DeckNames :
            IsFlattenCandidate(d, deck_name, preserve_levels) =>
                /\ CardCount(did, d) = 0
                /\ d \in decks => d \in failed

C1_Witness ==
    /\ FlattenSucceeded
    /\ \E d \in decks0 \ decks :
          /\ IsFlattenCandidate(d, deck_name, preserve_levels)
          /\ CardCount(did0, d) > 0
    /\ \E e \in decks \cap failed :
          /\ IsFlattenCandidate(e, deck_name, preserve_levels)
          /\ CardCount(did0, e) > 0

\* C2: after a successful flatten(root, levels) every card whose home deck
\* was a descendant of root deeper than levels is homed in the existing deck
\* named by the first levels + 1 segments of its original deck path.
C2_CardsLandOnTruncatedPath ==
    FlattenSucceeded =>
        \A c \in Cards :
            IsFlattenCandidate(did0[c], deck_name, preserve_levels) =>
                /\ did[c] = TruncatedPath(did0[c], preserve_levels + 1)
                /\ did[c] \in decks

C2_Witness ==
    /\ FlattenSucceeded
    /\ \E c \in Cards :
          /\ IsFlattenCandidate(did0[c], deck_name, preserve_levels)
          /\ DepthOf(did0[c]) >= preserve_levels + 2
          /\ did[c] # did0[c]

C4_PreservedCardsStay ==
    pc # "idle" =>
        \A c \in Cards :
            ~IsFlattenCandidate(did0[c], deck_name, preserve_levels) =>
                did[c] = did0[c]

C4_Witness ==
    /\ FlattenSucceeded
    /\ \E c \in Cards :
          /\ IsStrictDescendant(did0[c], deck_name)
          /\ DepthOf(did0[c]) = preserve_levels
          /\ did[c] = did0[c]
    /\ \E c \in Cards : did[c] # did0[c]

\* C5: once the re-scan has run every reassignment recorded for the
\* invocation has been applied, every deck waiting for removal holds no card,
\* and in every state each card's home deck exists.
C5_RemovalOnlyOfEmptyAfterReassign ==
    /\ pc = "remove" =>
          /\ pending = {}
          /\ \A c \in DOMAIN cids_to_new_did : did[c] = cids_to_new_did[c]
          /\ \A d \in Range(empty_subdeck_ids) : CardCount(did, d) = 0
    /\ \A c \in Cards : did[c] \in decks

C5_Witness ==
    /\ pc = "remove"
    /\ Len(empty_subdeck_ids) >= 1
    /\ Len(attempted) >= 1
    /\ Cardinality(DOMAIN cids_to_new_did) >= 2

\* C6: every deck that flatten(root, levels) has removed is a strict
\* descendant of root deeper than levels.
C6_OnlyCandidatesDeleted ==
    \A d \in decks0 \ decks :
        IsFlattenCandidate(d, deck_name, preserve_levels)

C6_Witness ==
    /\ pc = "done"
    /\ decks0 \ decks # {}
    /\ \E d \in decks :
          /\ IsStrictDescendant(d, deck_name)
          /\ DepthOf(d) <= preserve_levels
          /\ CardCount(did0, d) = 0
          /\ CardCount(did, d) = 0

\* C8 as stated: when root has no descendant deck, flatten(root, levels)
\* changes neither the deck set nor any card's home deck and succeeds.
C8_NoDescendantsNoMutation ==
    (pc = "done" /\ ~(\E d \in decks0 : IsStrictDescendant(d, deck_name))) =>
        /\ decks = decks0
        /\ did = did0
        /\ outcome = "success"

\* C9: once a removal has raised, the removal loop still attempts every other
\* empty candidate found by the re-scan, the reassignments stay in place and
\* the operation ends in success.
C9_RemovalFailureIsSkipped ==
    (pc \in {"remove", "done"} /\ failed # {}) =>
        /\ attempted \o empty_subdeck_ids = found_empty
        /\ \A c \in DOMAIN cids_to_new_did : did[c] = cids_to_new_did[c]
        /\ pc = "done" => (outcome = "success" /\ empty_subdeck_ids = <<>>)

C9_Witness ==
    /\ FlattenSucceeded
    /\ cids_to_new_did # NoMap
    /\ \E i, j \in 1..Len(attempted) :
          /\ i < j
          /\ attempted[i] \in failed
          /\ attempted[j] \notin failed
          /\ attempted[j] \in Range(removed_names)

----------------------------------------------------------------------------
(* Properties of tagging *)

\* C7 as stated: every note in the updates returned by
\* compute_tag_updates(root) has a card homed in root or in a deck whose path
\* starts with root followed by the separator.
C7_OutsideNotesExcluded ==
    tpc # "idle" =>
        \A u \in updates :
            \E c \in Cards : NoteOf(c) = u.nid /\ InsideRoot(did[c], tag_root)

\* C10: each application of the updates keeps every tag a note had, leaves no
\* duplicate, and from the second application on leaves every note's tag set
\* as it was.
C10_ApplyIdempotentUnion ==
    /\ \A i \in 1..(Len(hist) - 1) : \A n \in Notes :
          /\ Range(hist[i][n]) \subseteq Range(hist[i + 1][n])
          /\ NoDuplicates(hist[i + 1][n])
          /\ i >= 2 => Range(hist[i + 1][n]) = Range(hist[i][n])
    /\ Len(hist) >= 1 => noteTags = hist[Len(hist)]

C10_Witness ==
    /\ Len(hist) >= 3
    /\ \E n \in Notes :
          /\ hist[1][n] # <<>>
          /\ Range(hist[2][n]) # Range(hist[1][n])
          /\ hist[3][n] = hist[2][n]

====
